---------------------------- MODULE Spec2Model ----------------------------
(***************************************************************************)
(* Model of src/logeagle.py: the LogFileHandler tailing engine.            *)
(*                                                                         *)
(* main() builds one LogFileHandler per source; the two are independent    *)
(* objects, so the model follows one of them, of either log type.  It is   *)
(* driven by two threads: the watchdog observer thread, which calls        *)
(* on_modified, and the main thread, whose loop calls process_new_lines    *)
(* on each handler in turn.                                                *)
(* The handler code is modelled statement by statement as a program        *)
(* counter per thread, so that the same definitions give                   *)
(*   Spec        every handler call runs to completion before anything     *)
(*               else happens (signals in any order, one at a time), and   *)
(*   SpecThreads the two threads and the environment interleave freely,    *)
(*               as they do in the program, which takes no lock.           *)
(***************************************************************************)
EXTENDS Integers, Sequences, FiniteSets, TLC

(***************************************************************************)
(* Bounds of the model.                                                    *)
(***************************************************************************)
\* The clock runs over 0..MaxTime (seconds).
MaxTime == 2
\* The log producer writes at most MaxFileLen bytes to a file.
MaxFileLen == 2
\* A source creates at most MaxRecords records in a run.
MaxRecords == 5
\* Config.rotation_interval (src/logeagle.py:24 sets 3600), scaled to the clock.
RotationInterval == 1
\* The batch size of write_to_parquet (src/logeagle.py:103 tests 100), scaled.
BatchSize == 2

(***************************************************************************)
(* Text: a file's content is a sequence of one-character strings.          *)
(***************************************************************************)
NL == "\n"

\* The bytes the producer writes.
Alphabet == {"a", NL}

\* str.strip(): what counts as whitespace.
IsSpace(c) == c \in {" ", NL}

RECURSIVE LStrip(_)
LStrip(u) == IF u # << >> /\ IsSpace(Head(u)) THEN LStrip(Tail(u)) ELSE u

RECURSIVE RStrip(_)
RStrip(u) ==
    IF u # << >> /\ IsSpace(u[Len(u)]) THEN RStrip(SubSeq(u, 1, Len(u) - 1)) ELSE u

\* line.strip()
Strip(u) == RStrip(LStrip(u))

\* The index of the first line terminator of u, 0 when it has none.
FirstNL(u) ==
    IF \E i \in 1..Len(u) : u[i] = NL
    THEN CHOOSE i \in 1..Len(u) : u[i] = NL /\ \A j \in 1..(i - 1) : u[j] # NL
    ELSE 0

\* file.readlines() on the text u: the lines with their terminators kept, the
\* last one without a terminator when the text does not end in one.
RECURSIVE SplitLines(_)
SplitLines(u) ==
    IF u = << >> THEN << >>
    ELSE LET k == FirstNL(u)
         IN  IF k = 0 THEN << u >>
             ELSE << SubSeq(u, 1, k) >> \o SplitLines(SubSeq(u, k + 1, Len(u)))

\* file.seek(pos); file.readlines(): nothing when pos is at or past the end.
ReadLines(data, pos) == SplitLines(SubSeq(data, pos + 1, Len(data)))

\* file.tell() after seek(pos) and readlines(): the end of the file, or pos
\* itself when the seek went past the end.
Tell(data, pos) == IF pos > Len(data) THEN pos ELSE Len(data)


(***************************************************************************)
(* The program: main() builds one handler per source (lines 135-149).      *)
(***************************************************************************)
Sources == {"access", "error"}

\* The observer thread and the main thread (lines 133, 151, 154-158).
Threads == {"watch", "main"}

\* Paths a modification event can name: the two log files and anything else
\* in the watched directory.
Paths == Sources \cup {"other"}

\* generate_sample_logs: three synthetic lines of the handler's log type.  The
\* random fields and the time prefix of a line are not modelled.
SampleLogs(type) ==
    << <<"sample", type, "1">>, <<"sample", type, "2">>,
       <<"sample", type, "3">> >>

VARIABLES
    now,                 \* time.time(), in seconds
    exists,              \* os.path.exists(log_file)
    content,             \* the bytes of the log file
    log_type,            \* handler field: which source the handler tails
    last_position,       \* handler field
    buffer,              \* handler field: rows (ts, line) not yet written
    writer,              \* handler field: 0 is None, k is the k-th sink opened
    last_rotation_time,  \* handler field
    rotation_interval,   \* handler field, from Config
    sinks,               \* every ParquetWriter the handler opened, in order
    pc,                  \* pc[t]: where thread t is
    loc                  \* loc[t]: the locals of the call thread t is in

vars == << now, exists, content, log_type, last_position, buffer, writer,
           last_rotation_time, rotation_interval, sinks, pc, loc >>

env == << now, exists, content >>
config == << log_type, rotation_interval >>
handler == << last_position, buffer, writer, last_rotation_time, sinks >>

\* The locals of a thread that is in no handler call.  pos0, buf0 and sinks0
\* keep the handler's fields as the call found them, size the length of the
\* file it read (-1: no file), writes the sink writes it made, err the last
\* exception a write_to_parquet of the call caught, due whether the rotation
\* interval had elapsed when the call started.
NoLoc ==
    [kind |-> "none", lines |-> << >>, line |-> << >>, tell |-> 0,
     pos0 |-> 0, size |-> 0, buf0 |-> << >>, sinks0 |-> << >>,
     writes |-> 0, err |-> "none", due |-> FALSE]

\* LogFileHandler.__init__ (lines 43-52) for the handler of one log type with
\* the rotation interval it is given, then main() up to its loop; there and
\* data say what log file the program finds.
InitWith(type, there, data, interval) ==
    /\ now = 0
    /\ exists = there
    /\ content = data
    /\ log_type = type
    /\ last_position = 0
    /\ buffer = << >>
    /\ writer = 0
    /\ last_rotation_time = now
    /\ rotation_interval = interval
    /\ sinks = << >>
    /\ pc = [t \in Threads |-> IF t = "main" THEN "sleep" ELSE "idle"]
    /\ loc = [t \in Threads |-> NoLoc]

\* The handler as main() builds it, with Config.rotation_interval.
InitOf(type, there, data) == InitWith(type, there, data, RotationInterval)

\* The access handler, started before its log file exists.
Init == InitOf("access", FALSE, << >>)

\* _should_rotate (lines 121-122)
ShouldRotate == now - last_rotation_time >= rotation_interval

RECURSIVE RowCount(_)
RowCount(ss) == IF ss = << >> THEN 0 ELSE Len(Head(ss).rows) + RowCount(Tail(ss))

\* The records the handler has created so far, counted between its calls.
RecordCount == Len(buffer) + RowCount(sinks)

\* The records the next call of process_new_lines would create.
Incoming ==
    LET lines == ReadLines(content, last_position)
    IN  IF exists /\ lines # << >> THEN Len(lines) ELSE Len(SampleLogs(log_type))

\* The sinks that are open.
OpenSinks == {k \in 1..Len(sinks) : sinks[k].open}

\* Thread t is inside a handler call.
InHandler(t) ==
    pc[t] \in {"read", "loop", "append", "close", "rotate", "write", "clear",
               "tell", "done"}

Quiet == \A t \in Threads : ~InHandler(t)

Stopping == pc["main"] \in {"joining", "stopped"}

(***************************************************************************)
(* The environment: the clock and the producer of the log file.            *)
(***************************************************************************)
Tick ==
    /\ now < MaxTime
    /\ now' = now + 1
    /\ UNCHANGED << exists, content, config, handler, pc, loc >>

ProducerCreate ==
    /\ ~exists
    /\ exists' = TRUE
    /\ UNCHANGED << now, content, config, handler, pc, loc >>

ProducerWrite(c) ==
    /\ exists
    /\ Len(content) < MaxFileLen
    /\ content' = Append(content, c)
    /\ UNCHANGED << now, exists, config, handler, pc, loc >>

\* The producer truncates its file and goes on appending (copytruncate).
ProducerTruncate ==
    /\ exists
    /\ content # << >>
    /\ content' = << >>
    /\ UNCHANGED << now, exists, config, handler, pc, loc >>

(***************************************************************************)
(* LogFileHandler: a call of process_new_lines by thread t, step by step.  *)
(***************************************************************************)
\* The locals of a call that starts.
Enter ==
    [NoLoc EXCEPT !.pos0 = last_position, !.buf0 = buffer, !.sinks0 = sinks,
                  !.due = ShouldRotate]

\* on_modified (lines 54-56): the observer thread hands every event of the
\* watched directory to the handler, which processes those of its log_file.
OnModified(path) ==
    /\ pc["watch"] = "idle"
    /\ ~Stopping
    /\ IF path = log_type
       THEN /\ RecordCount + Incoming <= MaxRecords
            /\ pc' = [pc EXCEPT !["watch"] = "read"]
            /\ loc' = [loc EXCEPT !["watch"] = Enter]
       ELSE UNCHANGED << pc, loc >>
    /\ UNCHANGED << env, config, handler >>

\* main's loop (lines 155-158): after the sleep access_handler's
\* process_new_lines, then error_handler's.  The call on the other handler
\* touches nothing of this one.
Poll ==
    /\ pc["main"] \in {"sleep", "between"}
    /\ LET turn == IF pc["main"] = "sleep" THEN "access" ELSE "error"
       IN  IF turn = log_type
           THEN /\ RecordCount + Incoming <= MaxRecords
                /\ pc' = [pc EXCEPT !["main"] = "read"]
                /\ loc' = [loc EXCEPT !["main"] = Enter]
           ELSE /\ pc' = [pc EXCEPT !["main"] = IF turn = "access" THEN "between"
                                               ELSE "sleep"]
                /\ UNCHANGED loc
    /\ UNCHANGED << env, config, handler >>

\* Read without the sample lines: a call that finds nothing to read does
\* nothing.
ReadWithoutSamples(t) ==
    /\ pc[t] = "read"
    /\ LET lines == ReadLines(content, last_position)
       IN  loc' = [loc EXCEPT ![t] =
                IF ~exists
                THEN [@ EXCEPT !.kind = "missing",
                               !.lines = << >>,
                               !.size = 0 - 1]
                ELSE [@ EXCEPT !.kind = IF lines = << >> THEN "idle" ELSE "lines",
                               !.lines = lines,
                               !.tell = Tell(content, last_position),
                               !.pos0 = last_position,
                               !.size = Len(content)]]
    /\ pc' = [pc EXCEPT ![t] = "loop"]
    /\ UNCHANGED << env, config, handler >>

\* process_new_lines, lines 60-70: the file is missing, or it is read from
\* last_position on; with nothing to read the sample lines take its place.
Read(t) ==
    /\ pc[t] = "read"
    /\ LET lines == ReadLines(content, last_position)
       IN  loc' = [loc EXCEPT ![t] =
                IF ~exists
                THEN [@ EXCEPT !.kind = "missing",
                               !.lines = SampleLogs(log_type),
                               !.size = 0 - 1]
                ELSE [@ EXCEPT !.kind = IF lines = << >> THEN "idle" ELSE "lines",
                               !.lines = IF lines = << >>
                                         THEN SampleLogs(log_type) ELSE lines,
                               !.tell = Tell(content, last_position),
                               !.pos0 = last_position,
                               !.size = Len(content)]]
    /\ pc' = [pc EXCEPT ![t] = "loop"]
    /\ UNCHANGED << env, config, handler >>

\* Loop with the return of line 63 forgotten: a call that found no file
\* goes on to store a file position.
LoopStoresAlways(t) ==
    /\ pc[t] = "loop"
    /\ IF loc[t].lines = << >>
       THEN /\ pc' = [pc EXCEPT ![t] = "tell"]
            /\ UNCHANGED loc
       ELSE /\ pc' = [pc EXCEPT ![t] = "append"]
            /\ loc' = [loc EXCEPT ![t].lines = Tail(@),
                                  ![t].line = IF loc[t].kind = "lines"
                                              THEN Strip(Head(loc[t].lines))
                                              ELSE Head(loc[t].lines)]
    /\ UNCHANGED << env, config, handler >>

\* The for loops of lines 72-73 and 92-93: the next line goes to
\* write_to_parquet, a line of the file stripped first.
Loop(t) ==
    /\ pc[t] = "loop"
    /\ IF loc[t].lines = << >>
       THEN /\ pc' = [pc EXCEPT ![t] = IF loc[t].kind = "missing" THEN "done"
                                       ELSE "tell"]
            /\ UNCHANGED loc
       ELSE /\ pc' = [pc EXCEPT ![t] = "append"]
            /\ loc' = [loc EXCEPT ![t].lines = Tail(@),
                                  ![t].line = IF loc[t].kind = "lines"
                                              THEN Strip(Head(loc[t].lines))
                                              ELSE Head(loc[t].lines)]
    /\ UNCHANGED << env, config, handler >>

\* AppendRow with the batch test off by one: the flush waits for one record
\* more than the batch size.
AppendRowOffByOne(t) ==
    /\ pc[t] = "append"
    /\ LET flush == Len(buffer) + 1 > BatchSize \/ ShouldRotate
           rotate == writer = 0 \/ ShouldRotate
       IN  IF loc[t].line = << >>
           THEN /\ pc' = [pc EXCEPT ![t] = "loop"]
                /\ UNCHANGED buffer
           ELSE /\ buffer' = Append(buffer, [ts |-> now, line |-> loc[t].line])
                /\ pc' = [pc EXCEPT ![t] =
                             IF ~flush THEN "loop"
                             ELSE IF ~rotate THEN "write"
                             ELSE IF writer # 0 THEN "close"
                             ELSE "rotate"]
    /\ UNCHANGED << env, config, last_position, writer, last_rotation_time,
                    sinks, loc >>

\* write_to_parquet, lines 96-105: an empty line is dropped; any other is
\* buffered, and the batch and rotation conditions decide what follows.
AppendRow(t) ==
    /\ pc[t] = "append"
    /\ LET flush == Len(buffer) + 1 >= BatchSize \/ ShouldRotate
           rotate == writer = 0 \/ ShouldRotate
       IN  IF loc[t].line = << >>
           THEN /\ pc' = [pc EXCEPT ![t] = "loop"]
                /\ UNCHANGED buffer
           ELSE /\ buffer' = Append(buffer, [ts |-> now, line |-> loc[t].line])
                /\ pc' = [pc EXCEPT ![t] =
                             IF ~flush THEN "loop"
                             ELSE IF ~rotate THEN "write"
                             ELSE IF writer # 0 THEN "close"
                             ELSE "rotate"]
    /\ UNCHANGED << env, config, last_position, writer, last_rotation_time,
                    sinks, loc >>

\* CloseWriter with the close forgotten: the rotation goes on with the old
\* sink still open.
CloseWriterSkipped(t, ok) ==
    /\ pc[t] = "close"
    /\ pc' = [pc EXCEPT ![t] = "rotate"]
    /\ UNCHANGED << env, config, handler, loc >>

\* Line 106, self.writer.close(): the sink is closed, or the close raises and
\* the except clause of line 118 ends the call.  Closing a closed writer does
\* nothing.
CloseWriter(t, ok) ==
    /\ pc[t] = "close"
    /\ IF ok \/ ~sinks[writer].open
       THEN /\ sinks' = [sinks EXCEPT ![writer].open = FALSE]
            /\ pc' = [pc EXCEPT ![t] = "rotate"]
            /\ UNCHANGED loc
       ELSE /\ pc' = [pc EXCEPT ![t] = "loop"]
            /\ loc' = [loc EXCEPT ![t].err = "close"]
            /\ UNCHANGED sinks
    /\ UNCHANGED << env, config, last_position, buffer, writer,
                    last_rotation_time >>

\* RotateFile with the buffer emptied when the open fails: the rotation
\* gives up the records it could not write.
RotateFileDiscards(t, ok) ==
    /\ pc[t] = "rotate"
    /\ IF ok
       THEN /\ sinks' = Append(sinks, [name |-> now, rows |-> << >>,
                                       open |-> TRUE])
            /\ writer' = Len(sinks) + 1
            /\ last_rotation_time' = now
            /\ pc' = [pc EXCEPT ![t] = "write"]
            /\ UNCHANGED << loc, buffer >>
       ELSE /\ pc' = [pc EXCEPT ![t] = "loop"]
            /\ loc' = [loc EXCEPT ![t].err = "open"]
            /\ buffer' = << >>
            /\ UNCHANGED << sinks, writer, last_rotation_time >>
    /\ UNCHANGED << env, config, last_position >>

\* RotateFile with last_rotation_time set before the open: a failed open
\* counts as a rotation.
RotateFileMarksRotated(t, ok) ==
    /\ pc[t] = "rotate"
    /\ last_rotation_time' = now
    /\ IF ok
       THEN /\ sinks' = Append(sinks, [name |-> now, rows |-> << >>,
                                       open |-> TRUE])
            /\ writer' = Len(sinks) + 1
            /\ pc' = [pc EXCEPT ![t] = "write"]
            /\ UNCHANGED loc
       ELSE /\ pc' = [pc EXCEPT ![t] = "loop"]
            /\ loc' = [loc EXCEPT ![t].err = "open"]
            /\ UNCHANGED << sinks, writer >>
    /\ UNCHANGED << env, config, last_position, buffer >>

\* RotateFile with the exception of a failed open caught inside
\* _rotate_file: write_to_parquet goes on to its write.
RotateFileSwallows(t, ok) ==
    /\ pc[t] = "rotate"
    /\ IF ok
       THEN /\ sinks' = Append(sinks, [name |-> now, rows |-> << >>,
                                       open |-> TRUE])
            /\ writer' = Len(sinks) + 1
            /\ last_rotation_time' = now
            /\ UNCHANGED loc
       ELSE /\ loc' = [loc EXCEPT ![t].err = "open"]
            /\ UNCHANGED << sinks, writer, last_rotation_time >>
    /\ pc' = [pc EXCEPT ![t] = "write"]
    /\ UNCHANGED << env, config, last_position, buffer >>

\* _rotate_file, lines 125-128: a new ParquetWriter named by the time becomes
\* the writer, or its constructor raises.
RotateFile(t, ok) ==
    /\ pc[t] = "rotate"
    /\ IF ok
       THEN /\ sinks' = Append(sinks, [name |-> now, rows |-> << >>,
                                       open |-> TRUE])
            /\ writer' = Len(sinks) + 1
            /\ last_rotation_time' = now
            /\ pc' = [pc EXCEPT ![t] = "write"]
            /\ UNCHANGED loc
       ELSE /\ pc' = [pc EXCEPT ![t] = "loop"]
            /\ loc' = [loc EXCEPT ![t].err = "open"]
            /\ UNCHANGED << sinks, writer, last_rotation_time >>
    /\ UNCHANGED << env, config, last_position, buffer >>

\* WriteTable with the buffer cleared whether or not the write succeeded (the
\* clear moved to a finally clause).
WriteTableClearsAlways(t, ok) ==
    /\ pc[t] = "write"
    /\ IF ok /\ writer # 0 /\ sinks[writer].open
       THEN /\ sinks' = [sinks EXCEPT ![writer].rows = @ \o buffer]
            /\ loc' = [loc EXCEPT ![t].writes = @ + 1]
       ELSE /\ loc' = [loc EXCEPT ![t].err = "write"]
            /\ UNCHANGED sinks
    /\ pc' = [pc EXCEPT ![t] = "clear"]
    /\ UNCHANGED << env, config, last_position, buffer, writer,
                    last_rotation_time >>

\* Lines 109-115: the table is built from the whole buffer and written to the
\* writer; a closed writer, or a failing sink, raises.
WriteTable(t, ok) ==
    /\ pc[t] = "write"
    /\ LET table == buffer
       IN  IF ok /\ writer # 0 /\ sinks[writer].open
           THEN /\ sinks' = [sinks EXCEPT ![writer].rows = @ \o table]
                /\ pc' = [pc EXCEPT ![t] = "clear"]
                /\ loc' = [loc EXCEPT ![t].writes = @ + 1]
           ELSE /\ pc' = [pc EXCEPT ![t] = "loop"]
                /\ loc' = [loc EXCEPT ![t].err = "write"]
                /\ UNCHANGED sinks
    /\ UNCHANGED << env, config, last_position, buffer, writer,
                    last_rotation_time >>

\* Line 117, self.buffer.clear().
ClearBuffer(t) ==
    /\ pc[t] = "clear"
    /\ buffer' = << >>
    /\ pc' = [pc EXCEPT ![t] = "loop"]
    /\ UNCHANGED << env, config, last_position, writer, last_rotation_time,
                    sinks, loc >>

\* Line 74, self.last_position = file.tell().
StoreTell(t) ==
    /\ pc[t] = "tell"
    /\ last_position' = loc[t].tell
    /\ pc' = [pc EXCEPT ![t] = "done"]
    /\ UNCHANGED << env, config, buffer, writer, last_rotation_time, sinks,
                    loc >>

\* process_new_lines returns: the observer thread waits for the next event,
\* the main thread goes on to the other handler or to its sleep.
Return(t) ==
    /\ pc[t] = "done"
    /\ pc' = [pc EXCEPT ![t] = IF t = "watch" THEN "idle"
                                ELSE IF log_type = "access" THEN "between"
                                ELSE "sleep"]
    /\ loc' = [loc EXCEPT ![t] = NoLoc]
    /\ UNCHANGED << env, config, handler >>

\* Lines 159-161: KeyboardInterrupt reaches the main thread, which stops the
\* observer.
Interrupt ==
    /\ ~Stopping
    /\ pc' = [pc EXCEPT !["main"] = "joining"]
    /\ loc' = [loc EXCEPT !["main"] = NoLoc]
    /\ UNCHANGED << env, config, handler >>

\* Lines 162-164: observer.join() returns once the observer thread has left
\* the handler it was in; the program ends.
Join ==
    /\ pc["main"] = "joining"
    /\ pc["watch"] = "idle"
    /\ pc' = [t \in Threads |-> "stopped"]
    /\ UNCHANGED << env, config, handler, loc >>

\* One step of the call thread t is in.
Step(t) ==
    \/ Read(t)
    \/ Loop(t)
    \/ AppendRow(t)
    \/ \E ok \in BOOLEAN : CloseWriter(t, ok)
    \/ \E ok \in BOOLEAN : RotateFile(t, ok)
    \/ \E ok \in BOOLEAN : WriteTable(t, ok)
    \/ ClearBuffer(t)
    \/ StoreTell(t)
    \/ Return(t)

\* Handler calls run one at a time, each to its end: the clock, the producer
\* and the signals act between calls.
Next ==
    \/ Quiet /\ Tick
    \/ Quiet /\ ProducerCreate
    \/ Quiet /\ \E c \in Alphabet : ProducerWrite(c)
    \/ Quiet /\ ProducerTruncate
    \/ Quiet /\ \E path \in Paths : OnModified(path)
    \/ Quiet /\ Poll
    \/ Quiet /\ Interrupt
    \/ Join
    \/ \E t \in Threads : Step(t)

Spec == Init /\ [][Next]_vars

(***************************************************************************)
(* The same program with a producer that writes whole lines to a log file  *)
(* that exists from the start, so that one signal can deliver several      *)
(* complete lines, and that can remove the file.                           *)
(***************************************************************************)
\* The producer writes at most MaxLines lines to a file.
MaxLines == 3

\* The producer appends the line "a" with its terminator.
ProducerWriteLine ==
    /\ exists
    /\ Len(content) + 2 <= 2 * MaxLines
    /\ content' = content \o <<"a", NL>>
    /\ UNCHANGED << now, exists, config, handler, pc, loc >>

\* The log file is removed (moved away by a log rotation).
ProducerRemove ==
    /\ exists
    /\ exists' = FALSE
    /\ content' = << >>
    /\ UNCHANGED << now, config, handler, pc, loc >>

NextLines ==
    \/ Quiet /\ Tick
    \/ Quiet /\ ProducerCreate
    \/ Quiet /\ ProducerRemove
    \/ Quiet /\ ProducerWriteLine
    \/ Quiet /\ ProducerTruncate
    \/ Quiet /\ \E path \in Paths : OnModified(path)
    \/ Quiet /\ Poll
    \/ Quiet /\ Interrupt
    \/ Join
    \/ \E t \in Threads : Step(t)

InitLines == InitOf("access", TRUE, << >>)

SpecLines == InitLines /\ [][NextLines]_vars

\* The same with a handler built with any rotation interval up to
\* RotationInterval, 0 included (rotation_interval is a parameter of
\* __init__, line 43).
InitIntervals ==
    \E interval \in 0..RotationInterval :
        InitWith("access", TRUE, << >>, interval)

SpecIntervals == InitIntervals /\ [][NextLines]_vars

(***************************************************************************)
(* The program that is never interrupted, with a sink whose opens and      *)
(* writes succeed: the loop of main goes on polling (lines 155-158) and a  *)
(* call that has started runs on to its end.                               *)
(***************************************************************************)
StepLive(t) ==
    \/ Read(t)
    \/ Loop(t)
    \/ AppendRow(t)
    \/ \E ok \in BOOLEAN : CloseWriter(t, ok)
    \/ RotateFile(t, TRUE)
    \/ WriteTable(t, TRUE)
    \/ ClearBuffer(t)
    \/ StoreTell(t)
    \/ Return(t)

NextLive ==
    \/ Quiet /\ Tick
    \/ Quiet /\ ProducerCreate
    \/ Quiet /\ ProducerRemove
    \/ Quiet /\ ProducerWriteLine
    \/ Quiet /\ ProducerTruncate
    \/ Quiet /\ \E path \in Paths : OnModified(path)
    \/ Quiet /\ Poll
    \/ \E t \in Threads : StepLive(t)

SpecLive ==
    /\ InitLines
    /\ [][NextLive]_vars
    /\ WF_vars(Quiet /\ Poll)
    /\ WF_vars(\E t \in Threads : StepLive(t))

(***************************************************************************)
(* The program as it runs: nothing serializes the observer thread and the  *)
(* main thread, so their steps interleave.  To keep the state space in     *)
(* bounds the run starts with a log file of one line that the producer     *)
(* leaves alone, the sink never fails, and the clock and the interrupt act *)
(* between calls.                                                          *)
(***************************************************************************)
StepThreads(t) ==
    \/ Read(t)
    \/ Loop(t)
    \/ AppendRow(t)
    \/ CloseWriter(t, TRUE)
    \/ RotateFile(t, TRUE)
    \/ WriteTable(t, TRUE)
    \/ ClearBuffer(t)
    \/ StoreTell(t)
    \/ Return(t)

NextThreads ==
    \/ Quiet /\ Tick
    \/ Quiet /\ Interrupt
    \/ \E path \in Paths : OnModified(path)
    \/ Poll
    \/ Join
    \/ \E t \in Threads : StepThreads(t)

InitThreads == InitOf("access", TRUE, <<"a", NL>>)

SpecThreads == InitThreads /\ [][NextThreads]_vars

(***************************************************************************)
(* The claims.                                                             *)
(***************************************************************************)
\* The byte position that follows the last complete line of data.
CompleteEnd(data) ==
    IF \E i \in 1..Len(data) : data[i] = NL
    THEN CHOOSE i \in 1..Len(data) :
             data[i] = NL /\ \A j \in (i + 1)..Len(data) : data[j] # NL
    ELSE 0

\* The lines of a sequence of rows.
LinesOf(rows) == [i \in 1..Len(rows) |-> rows[i].line]

RECURSIVE AllRows(_)
\* The rows handed to the sinks, in the order the sinks were opened.
AllRows(ss) == IF ss = << >> THEN << >> ELSE Head(ss).rows \o AllRows(Tail(ss))

\* C1 (partial-line safety): a read never takes a line without a terminator
\* as a line to emit, and when the call ends the cursor is the byte position
\* that follows the last complete line of the file.
C1_PartialLineSafety ==
    \A t \in Threads :
        loc[t].kind = "lines" /\ loc[t].pos0 <= loc[t].size
        => /\ \A i \in 1..Len(loc[t].lines) :
                  loc[t].lines[i][Len(loc[t].lines[i])] = NL
           /\ pc[t] = "done" => last_position = CompleteEnd(content)

\* C2 (no duplicate, no loss): once the signals have consumed the file, which
\* holds complete lines only, the records handed to the sinks followed by the
\* buffered ones are exactly the lines of the file, in order.
C2_NoDuplicateNoLoss ==
    Quiet /\ last_position = Len(content) /\ CompleteEnd(content) = Len(content)
    => LinesOf(AllRows(sinks) \o buffer)
           = [i \in 1..Len(SplitLines(content)) |->
                 SubSeq(SplitLines(content)[i], 1,
                        Len(SplitLines(content)[i]) - 1)]

\* C3 (rotation exclusivity): at most one sink of the source is open.
C3_RotationExclusivity == Cardinality(OpenSinks) <= 1

\* C4 (shutdown flush): the program never reaches its stopped state with
\* buffered records or an open sink.
C4_ShutdownFlush ==
    pc["main"] = "stopped" => buffer = << >> /\ OpenSinks = {}

\* C5 (idempotent no-op signal): a call that finds the file with no bytes
\* beyond the cursor keeps the cursor, the buffer and the sinks as it found
\* them, to its end, and writes nothing to a sink.
C5_IdleSignalNoOp ==
    \A t \in Threads :
        loc[t].kind = "idle"
        => /\ last_position = loc[t].pos0
           /\ buffer = loc[t].buf0
           /\ sinks = loc[t].sinks0
           /\ loc[t].writes = 0

\* C6 (serialized per-source state): the observer thread and the main thread
\* are never inside the handler of the source at the same time.
C6_Serialized == ~(InHandler("watch") /\ InHandler("main"))

\* C8 (truncation detection): a call that finds the file shorter than the
\* cursor resets the cursor and reads the whole file: what it takes are the
\* lines of the file, not sample lines, and it ends with the cursor at the end
\* of the file.
C8_TruncationDetected ==
    \A t \in Threads :
        loc[t].kind \in {"idle", "lines"} /\ loc[t].pos0 > loc[t].size
        => /\ loc[t].size > 0 => loc[t].kind = "lines"
           /\ loc[t].tell = loc[t].size
           /\ pc[t] = "done" => last_position = loc[t].size

\* C9 (cursor invariant): when a call ends the cursor is not below what the
\* call found, unless it was reset to 0, and not beyond the end of the file
\* the call read.  (Stated for the calls in which no sink operation failed.)
C9_CursorInvariant ==
    \A t \in Threads :
        pc[t] = "done" /\ loc[t].kind # "missing" /\ loc[t].err = "none"
        => /\ last_position >= loc[t].pos0 \/ last_position = 0
           /\ last_position <= loc[t].size

\* rows ends with the rows of batch.
EndsWith(rows, batch) ==
    /\ Len(rows) >= Len(batch)
    /\ SubSeq(rows, Len(rows) - Len(batch) + 1, Len(rows)) = batch

\* C7 (flush atomicity, retention on failure): a sink only ever grows by the
\* whole buffer as one batch; a write that fails leaves the buffer as it was,
\* so the next flush offers the batch again; and the buffer only changes by
\* one more record or by being emptied right after the sink took all of it.
C7_FlushAtomicRetained ==
    [][/\ \A k \in 1..Len(sinks) :
              sinks'[k].rows # sinks[k].rows
              => buffer # << >> /\ sinks'[k].rows = sinks[k].rows \o buffer
       /\ \A t \in Threads :
              pc[t] = "write" /\ pc'[t] = "loop"
              => buffer' = buffer /\ sinks' = sinks
       /\ buffer' # buffer
              => \/ Len(buffer') = Len(buffer) + 1
                    /\ SubSeq(buffer', 1, Len(buffer)) = buffer
                 \/ /\ buffer' = << >>
                    /\ writer # 0
                    /\ EndsWith(sinks[writer].rows, buffer)]_vars

\* C7's case: a write failed, its record stayed buffered, and a later flush
\* of the same call has just written it together with the next record.
C7_Witness ==
    \E t \in Threads :
        pc[t] = "clear" /\ loc[t].err = "write" /\ Len(buffer) >= 2

\* C10 as claimed (no reordering across a rotation boundary): a record that
\* was buffered before a rotation was committed to the old sink, so a sink
\* opened by a rotation holds no record older than itself.
C10_CommittedToOldSink ==
    \A k \in 2..Len(sinks) :
        \A i \in 1..Len(sinks[k].rows) : sinks[k].rows[i].ts >= sinks[k].name

\* The buffered records no sink holds yet: all of the buffer, but between a
\* write and the clear that follows it none.
Pending == IF \E t \in Threads : pc[t] = "clear" THEN << >> ELSE buffer

\* The records in the order the handler took them: by time, never backwards.
InOrder(rows) == \A i \in 1..(Len(rows) - 1) : rows[i].ts <= rows[i + 1].ts

\* C10 as amended: a rotation closes the old sink first and the buffered
\* records then go, as one batch in their order, to the new sink; a batch is
\* only ever written to the sink opened last, with every older sink closed,
\* and the sinks in the order they were opened, followed by the records still
\* pending, hold the records in the order they were taken.
C10_RotateThenFlush ==
    /\ [](InOrder(AllRows(sinks) \o Pending))
    /\ [][\A k \in 1..Len(sinks) :
              sinks'[k].rows # sinks[k].rows
              => /\ k = Len(sinks')
                 /\ sinks'[k].rows = sinks[k].rows \o buffer
                 /\ \A j \in 1..(k - 1) : ~sinks'[j].open]_vars

\* C10's case: a rotation closed the old sink and the new one holds, in one
\* batch, a record that was buffered before the rotation.
C10_Witness ==
    \E k \in 2..Len(sinks) :
        /\ ~sinks[k - 1].open
        /\ Len(sinks[k].rows) >= 2
        /\ sinks[k].rows[1].ts < sinks[k].name

\* u is an initial part of v.
IsPrefix(u, v) == Len(u) <= Len(v) /\ SubSeq(v, 1, Len(u)) = u

\* C11 (no record discarded by a rotation): the close of the old sink and the
\* open of the new one, whether they succeed or fail, leave the buffer as it
\* is, and no step ever takes away a record that is buffered or written: the
\* records of the sinks followed by the pending ones only grow at their end.
C11_RotationKeepsRecords ==
    [][/\ \A t \in Threads :
              pc[t] \in {"close", "rotate"} /\ pc'[t] # pc[t]
              => buffer' = buffer /\ AllRows(sinks') = AllRows(sinks)
       /\ IsPrefix(AllRows(sinks) \o Pending, AllRows(sinks') \o Pending')]_vars

\* C11's case: the close of the old sink failed with a record buffered, and
\* a later rotation of the same call has written that record, with the next
\* one, to a new sink.
C11_Witness ==
    \E t \in Threads :
        /\ pc[t] = "clear" /\ loc[t].err = "close"
        /\ Len(sinks) >= 2 /\ sinks[Len(sinks)].rows = buffer
        /\ Len(buffer) >= 2

RECURSIVE NonBlank(_)
\* The lines of a read that write_to_parquet keeps: those still non-empty
\* once stripped.
NonBlank(lines) ==
    IF lines = << >> THEN 0
    ELSE (IF Strip(Head(lines)) = << >> THEN 0 ELSE 1) + NonBlank(Tail(lines))

\* The lines the file delivers to the call thread t is in.
Delivered(t) == NonBlank(ReadLines(content, loc[t].pos0))

\* The rows the sinks took during the call thread t is in.
Written(t) == Len(AllRows(sinks)) - Len(AllRows(loc[t].sinks0))

\* In the call thread t is in: a flush carries exactly BatchSize records, the
\* buffer never waits with BatchSize records, and a call that found the buffer
\* empty and read k lines ends after k \div BatchSize flushes with
\* k % BatchSize records buffered.
CountFlush(t) ==
    /\ pc[t] \in {"write", "clear"} => Len(buffer) = BatchSize
    /\ pc[t] \in {"loop", "tell", "done"} => Len(buffer) < BatchSize
    /\ Written(t) = loc[t].writes * BatchSize
    /\ pc[t] = "done" /\ loc[t].kind = "lines" /\ loc[t].buf0 = << >>
       => /\ loc[t].writes = Delivered(t) \div BatchSize
          /\ Len(buffer) = Delivered(t) % BatchSize

C13_RotationOnCount ==
    \A t \in Threads :
        pc[t] = "clear" /\ writer # 0
        => Len(sinks[writer].rows) - Len(buffer) < BatchSize

\* A record made from a sample line.
IsSample(r) == r.line[1] = "sample"

\* Record r is a line of the file and the only record taken at its time: the
\* signal that took it delivered exactly that line.
Alone(r) ==
    /\ ~IsSample(r)
    /\ Cardinality({i \in 1..Len(AllRows(sinks) \o Pending) :
                       (AllRows(sinks) \o Pending)[i].ts = r.ts}) = 1

\* C14 (time threshold forces rotation below the count threshold): two
\* records, each the one line of its signal, taken more than the rotation
\* interval apart, are never in the same sink.
C14_TimeForcesSeparateSinks ==
    \A k \in 1..Len(sinks) :
        \A i, j \in 1..Len(sinks[k].rows) :
            ~ /\ sinks[k].rows[j].ts - sinks[k].rows[i].ts > rotation_interval
              /\ Alone(sinks[k].rows[i])
              /\ Alone(sinks[k].rows[j])

\* C15 (bounded buffer under persistent sink failure): the buffer stays below
\* a ceiling however many records the source creates.  A run of the model
\* creates up to MaxRecords records, so any ceiling that run could show is
\* below MaxRecords.
C15_BufferCeiling == Len(buffer) < MaxRecords

\* An open of a sink has failed and none has succeeded since: the writer is a
\* closed one, or there is none although a batch is waiting.
RotationPending ==
    \/ writer # 0 /\ ~sinks[writer].open
    \/ writer = 0 /\ Len(buffer) >= BatchSize

\* C16 (rotation failure is retried): an open that fails leaves the buffer
\* and the sinks as they are and the call goes on with its next line; and as
\* long as the failed open has not been made up for, every further record is
\* buffered and followed by a new attempt to rotate, never by a write.
C16_RotationRetried ==
    [][\A t \in Threads :
          /\ pc[t] = "rotate" /\ pc'[t] # "rotate" /\ Len(sinks') = Len(sinks)
             => /\ buffer' = buffer /\ sinks' = sinks
                /\ pc'[t] = "loop" /\ loc'[t].lines = loc[t].lines
          /\ pc[t] = "append" /\ pc'[t] # "append" /\ loc[t].line # << >>
                /\ RotationPending
             => /\ buffer' = Append(buffer, [ts |-> now, line |-> loc[t].line])
                /\ pc'[t] \in {"close", "rotate"}]_vars

\* C16's case: after a rotation closed the old sink the open of the new one
\* failed; the next record of the call was buffered and the rotation tried
\* again, and the new sink is open with the batch about to be written.
C16_Witness ==
    \E t \in Threads :
        /\ pc[t] = "write" /\ loc[t].err = "open"
        /\ Len(sinks) >= 2 /\ writer = Len(sinks)
        /\ ~sinks[writer - 1].open /\ sinks[writer].open
        /\ Len(buffer) >= 2

\* The records the handler holds that it did not hold when the call thread t
\* is in started.
NewRecords(t) ==
    SubSeq(AllRows(sinks) \o Pending,
           Len(AllRows(loc[t].sinks0) \o loc[t].buf0) + 1,
           Len(AllRows(sinks) \o Pending))

\* C17 (source unavailable is non-fatal and skips the cycle): every signal
\* looks for the file anew; a call that finds none takes no line of a file,
\* leaves the cursor as it found it and returns as any call does, the main
\* thread going on to the other source; and a call that finds the file reads
\* it from the cursor.
C17_SourceUnavailable ==
    /\ [](\A t \in Threads :
              loc[t].kind = "missing"
              => /\ last_position = loc[t].pos0
                 /\ pc[t] \in {"loop", "append", "close", "rotate", "write",
                               "clear", "done"}
                 /\ \A i \in 1..Len(NewRecords(t)) : IsSample(NewRecords(t)[i]))
    /\ [][\A t \in Threads :
              /\ pc[t] = "read" /\ pc'[t] # "read"
                 => /\ loc'[t].kind = "missing" <=> ~exists
                    /\ loc'[t].kind = "lines"
                       => loc'[t].lines = ReadLines(content, last_position)
              /\ pc[t] = "done" /\ pc'[t] # "done" /\ loc[t].kind = "missing"
                 => pc'[t] = IF t = "watch" THEN "idle" ELSE "between"]_vars

\* C17's case: the file was read, then removed, and the call of the next
\* signal found no file and has ended, the cursor still where it was.
C17_Witness ==
    \E t \in Threads :
        pc[t] = "done" /\ loc[t].kind = "missing" /\ loc[t].pos0 > 0

\* C18 (collision-free sink names): no two sinks the handler opened have the
\* same name.  (Stated for the states in which no sink operation has failed
\* in a call that is under way.)
C18_CollisionFreeNames ==
    (\A t \in Threads : loc[t].err = "none")
    => \A j, k \in 1..Len(sinks) : j # k => sinks[j].name # sinks[k].name

\* C19 (a batch is only written to an open sink): whenever a call reaches
\* the sink write the writer is there and open; a writer that was closed is
\* only kept while the rotation is still due, so that it is replaced before
\* the next write.
C19_WriteToOpenSink ==
    /\ \A t \in Threads : pc[t] = "write" => writer # 0 /\ sinks[writer].open
    /\ writer # 0 /\ ~sinks[writer].open => ShouldRotate

\* C19's case: a rotation closed the old sink and failed to open the new
\* one; the next flush of the call rotated again and its batch has been
\* written to the sink it opened.
C19_Witness ==
    \E t \in Threads :
        /\ pc[t] = "clear" /\ loc[t].err = "open"
        /\ Len(sinks) >= 2 /\ writer = Len(sinks)
        /\ ~sinks[writer - 1].open
        /\ sinks[writer].open /\ sinks[writer].rows = buffer

\* The most records one call creates: the lines of the file or the samples.
MaxIncoming ==
    IF MaxLines > Len(SampleLogs(log_type)) THEN MaxLines
    ELSE Len(SampleLogs(log_type))

\* The records the handler has created, each counted once.
Created == RowCount(sinks) + Len(Pending)

\* The run has room for the calls that bring the buffer to a batch,
\* whatever they deliver.
Room ==
    Created + MaxIncoming
        + (IF Len(buffer) < BatchSize - 1 THEN BatchSize - 1 - Len(buffer) ELSE 0)
    <= MaxRecords

=============================================================================
